---------------------------- MODULE Spec2Model ----------------------------
(***************************************************************************)
(* Model of the clipboard plugin in src/src/lib.rs: the clipboard monitor  *)
(* (ClipboardMonitor driven by Master::run), the ClipboardManager facade   *)
(* (read_text, write_text, read_image, read_image_binary, write_image) and *)
(* the image conversion the facade performs (RGBA buffer <-> PNG bytes <-> *)
(* unpadded base64 text).                                                  *)
(***************************************************************************)
EXTENDS Integers, Sequences, FiniteSets, TLC

(* ------------------------------ bounds -------------------------------- *)

\* Largest width and height of an image placed on the OS clipboard.
MaxDim == 2
\* Number of detection outcomes the OS mechanism produces in one run.
MaxOutcomes == 3
\* Number of host threads that may be inside a Facade call at once.
NumCallers == 2

Callers == 1..NumCallers
\* The host thread of the sequential scenarios.
Host == CHOOSE c \in Callers : \A d \in Callers : c <= d

(* ------------------------- bytes and base64 --------------------------- *)

\* general_purpose::STANDARD_NO_PAD: text is a sequence of symbols, a symbol
\* below 64 being its index in the standard alphabet; PadSym is '=' and
\* UrlSym is '-', neither of which belongs to the standard alphabet.
PadSym == 64
UrlSym == 65

RECURSIVE B64EncodeFrom(_, _)
B64EncodeFrom(bytes, i) ==
  LET n == Len(bytes) - i + 1 IN
  IF n <= 0 THEN << >>
  ELSE IF n = 1 THEN
    << bytes[i] \div 4, (bytes[i] % 4) * 16 >>
  ELSE IF n = 2 THEN
    << bytes[i] \div 4,
       (bytes[i] % 4) * 16 + (bytes[i+1] \div 16),
       (bytes[i+1] % 16) * 4 >>
  ELSE
    << bytes[i] \div 4,
       (bytes[i] % 4) * 16 + (bytes[i+1] \div 16),
       (bytes[i+1] % 16) * 4 + (bytes[i+2] \div 64),
       bytes[i+2] % 64 >> \o B64EncodeFrom(bytes, i + 3)

\* Engine::encode under STANDARD_NO_PAD: three bytes to four symbols, a
\* trailing one or two bytes to two or three symbols, no padding.
B64Encode(bytes) == B64EncodeFrom(bytes, 1)

RECURSIVE B64DecodeFrom(_, _)
B64DecodeFrom(text, i) ==
  LET n == Len(text) - i + 1 IN
  IF n <= 0 THEN << >>
  ELSE IF n = 2 THEN
    << text[i] * 4 + (text[i+1] \div 16) >>
  ELSE IF n = 3 THEN
    << text[i] * 4 + (text[i+1] \div 16),
       (text[i+1] % 16) * 16 + (text[i+2] \div 4) >>
  ELSE
    << text[i] * 4 + (text[i+1] \div 16),
       (text[i+1] % 16) * 16 + (text[i+2] \div 4),
       (text[i+2] % 4) * 64 + text[i+3] >> \o B64DecodeFrom(text, i + 4)

\* Engine::decode under STANDARD_NO_PAD: rejects a symbol outside the
\* alphabet (padding included), a length of 1 modulo 4, and a last symbol
\* whose unused low bits are set.
B64Decode(text) ==
  LET n == Len(text) IN
  IF \E k \in 1..n : text[k] = PadSym THEN
    [ok |-> FALSE, err |-> "Invalid padding"]
  ELSE IF \E k \in 1..n : text[k] > 63 THEN
    [ok |-> FALSE, err |-> "Invalid byte"]
  ELSE IF n % 4 = 1 THEN
    [ok |-> FALSE, err |-> "Invalid input length"]
  ELSE IF (n % 4 = 2 /\ text[n] % 16 # 0) \/ (n % 4 = 3 /\ text[n] % 4 # 0) THEN
    [ok |-> FALSE, err |-> "Invalid last symbol"]
  ELSE
    [ok |-> TRUE, bytes |-> B64DecodeFrom(text, 1)]

(* ----------------------------- raster images -------------------------- *)

\* arboard::ImageData: width, height and the RGBA bytes handed over by the
\* OS; nothing in the type ties the buffer length to the dimensions.
ImageData(w, h, bytes) == [width |-> w, height |-> h, bytes |-> bytes]

\* The serialized raster file, as far as the plugin depends on it: a
\* signature, the colour type, the dimensions and the scanlines, each
\* scanline led by its filter byte.
PngSig == << 137, 80 >>
ColourGray == 0
ColourRgb == 2
ColourRgba == 6

Channels(ct) == IF ct = ColourGray THEN 1 ELSE IF ct = ColourRgb THEN 3 ELSE 4

RECURSIVE Scanlines(_, _, _, _)
Scanlines(data, rowLen, rows, r) ==
  IF r > rows THEN << >>
  ELSE << 0 >> \o SubSeq(data, (r - 1) * rowLen + 1, r * rowLen)
            \o Scanlines(data, rowLen, rows, r + 1)

PngFile(ct, w, h, data) ==
  PngSig \o << ct, w, h >> \o Scanlines(data, w * Channels(ct), h, 1)

\* ImageBuffer::from_raw: None unless the buffer holds at least
\* width*height*4 bytes; a longer buffer is accepted.
from_raw(w, h, buf) ==
  IF w * h * 4 <= Len(buf)
  THEN [some |-> TRUE, width |-> w, height |-> h, data |-> buf]
  ELSE [some |-> FALSE]

\* ImageBuffer::save to a .png path: writes the first width*height*4 bytes
\* of the buffer as an RGBA raster file.
save(ib) ==
  PngFile(ColourRgba, ib.width, ib.height,
          SubSeq(ib.data, 1, ib.width * ib.height * 4))

RECURSIVE Unfilter(_, _, _, _)
Unfilter(body, rowLen, rows, r) ==
  IF r > rows THEN << >>
  ELSE SubSeq(body, (r - 1) * (rowLen + 1) + 2, r * (rowLen + 1))
         \o Unfilter(body, rowLen, rows, r + 1)

\* image::load_from_memory: the format is guessed from the signature, then
\* the file is parsed; anything else is an error.
load_from_memory(bytes) ==
  IF Len(bytes) < 5 \/ SubSeq(bytes, 1, 2) # PngSig THEN
    [ok |-> FALSE, err |-> "The image format could not be determined"]
  ELSE
    LET ct == bytes[3]
        w == bytes[4]
        h == bytes[5]
        body == SubSeq(bytes, 6, Len(bytes))
    IN
    IF ct \notin {ColourGray, ColourRgb, ColourRgba} \/ w = 0 \/ h = 0
       \/ Len(body) # h * (w * Channels(ct) + 1)
       \/ \E r \in 1..h : body[(r - 1) * (w * Channels(ct) + 1) + 1] # 0
    THEN [ok |-> FALSE, err |-> "Format error decoding Png"]
    ELSE [ok |-> TRUE, colour |-> ct, width |-> w, height |-> h,
          data |-> Unfilter(body, w * Channels(ct), h, 1)]

RECURSIVE PixelsFrom_Bgra(_, _)
\* The pixels flattened in blue, green, red, alpha order.
PixelsFrom_Bgra(img, p) ==
  IF p > img.width * img.height THEN << >>
  ELSE
    LET c == Channels(img.colour)
        b == (p - 1) * c
        px == IF img.colour = ColourGray
                THEN << img.data[b+1], img.data[b+1], img.data[b+1], 255 >>
              ELSE IF img.colour = ColourRgb
                THEN << img.data[b+3], img.data[b+2], img.data[b+1], 255 >>
              ELSE << img.data[b+3], img.data[b+2], img.data[b+1], img.data[b+4] >>
    IN px \o PixelsFrom_Bgra(img, p + 1)

RECURSIVE PixelsFrom(_, _)
\* img.pixels() flattened: every pixel as four bytes, whatever the colour
\* type of the decoded image.
PixelsFrom(img, p) ==
  IF p > img.width * img.height THEN << >>
  ELSE
    LET c == Channels(img.colour)
        b == (p - 1) * c
        px == IF img.colour = ColourGray
                THEN << img.data[b+1], img.data[b+1], img.data[b+1], 255 >>
              ELSE IF img.colour = ColourRgb
                THEN << img.data[b+1], img.data[b+2], img.data[b+3], 255 >>
              ELSE << img.data[b+1], img.data[b+2], img.data[b+3], img.data[b+4] >>
    IN px \o PixelsFrom(img, p + 1)


(* ------------------------------ OS clipboard -------------------------- *)

Empty == [kind |-> "empty"]
TextContent(t) == [kind |-> "text", text |-> t]
ImageContent(img) == [kind |-> "image", img |-> img]

\* What a clipboard operation of arboard can meet in the OS: the clipboard
\* is free, or another owner holds it and the operation fails.
OsStates == {"free", "occupied"}

get_text(cb, os) ==
  IF os = "occupied" THEN [ok |-> FALSE, err |-> "ClipboardOccupied"]
  ELSE IF cb.kind # "text" THEN [ok |-> FALSE, err |-> "ContentNotAvailable"]
  ELSE [ok |-> TRUE, value |-> cb.text]

set_text(cb, text, os) ==
  IF os = "occupied" THEN [ok |-> FALSE, err |-> "ClipboardOccupied", clipboard |-> cb]
  ELSE [ok |-> TRUE, clipboard |-> TextContent(text)]

get_image(cb, os) ==
  IF os = "occupied" THEN [ok |-> FALSE, err |-> "ClipboardOccupied"]
  ELSE IF cb.kind # "image" THEN [ok |-> FALSE, err |-> "ContentNotAvailable"]
  ELSE [ok |-> TRUE, value |-> cb.img]

set_image(cb, img, os) ==
  IF os = "occupied" THEN [ok |-> FALSE, err |-> "ClipboardOccupied", clipboard |-> cb]
  ELSE [ok |-> TRUE, clipboard |-> ImageContent(img)]

(* ------------------------------- the facade --------------------------- *)

\* The results of a Facade call: Ok(value), Err(message), or a panic that
\* unwinds the calling thread without any value returned.
Ok(v, cb) == [status |-> "ok", value |-> v, clipboard |-> cb]
Err(msg, cb) == [status |-> "err", value |-> msg, clipboard |-> cb]
Panic(cb) == [status |-> "panic", value |-> "unwrap", clipboard |-> cb]
Unit == "()"

\* Outcomes of the temporary-file steps of read_image and read_image_binary.
IoOutcomes == {"ok", "tempdir_fails", "save_fails", "open_fails"}

\* h is the outcome of Clipboard::new(): "ok" or "fails".
HandleOutcomes == {"ok", "fails"}

read_text(cb, h, os) ==
  IF h = "fails" THEN Panic(cb)
  ELSE LET r == get_text(cb, os) IN
       IF r.ok THEN Ok(r.value, cb) ELSE Err(r.err, cb)

\* write_text that reports success without having set the text.
write_text_NotSet(cb, text, h, os) ==
  IF h = "fails" THEN Panic(cb)
  ELSE LET r == set_text(cb, text, os) IN
       IF r.ok THEN Ok(Unit, cb) ELSE Err(r.err, cb)

write_text(cb, text, h, os) ==
  IF h = "fails" THEN Panic(cb)
  ELSE LET r == set_text(cb, text, os) IN
       IF r.ok THEN Ok(Unit, r.clipboard) ELSE Err(r.err, cb)

read_image_binary(cb, h, os, io) ==
  IF h = "fails" THEN Panic(cb)
  ELSE LET r == get_image(cb, os) IN
    IF ~r.ok THEN Err(r.err, cb)
    ELSE IF io = "tempdir_fails" THEN Err("tempdir", cb)
    ELSE LET image2 == from_raw(r.value.width, r.value.height, r.value.bytes) IN
      IF ~image2.some THEN Panic(cb)
      ELSE IF io = "save_fails" THEN Err("save", cb)
      ELSE IF io = "open_fails" THEN Panic(cb)
      ELSE Ok(save(image2), cb)

read_image(cb, h, os, io) ==
  LET r == read_image_binary(cb, h, os, io) IN
  IF r.status = "ok" THEN Ok(B64Encode(r.value), cb) ELSE r

write_image(cb, base64_image, h, os) ==
  IF h = "fails" THEN Panic(cb)
  ELSE LET decoded == B64Decode(base64_image) IN
    IF ~decoded.ok THEN Err(decoded.err, cb)
    ELSE LET img == load_from_memory(decoded.bytes) IN
      IF ~img.ok THEN Err(img.err, cb)
      ELSE LET img_data == ImageData(img.width, img.height, PixelsFrom(img, 1))
               r == set_image(cb, img_data, os)
           IN IF r.ok THEN Ok(Unit, r.clipboard) ELSE Err(r.err, cb)

\* The command a host thread invokes: one of the five handlers registered
\* in init, with its argument.
Command(op, arg) == [op |-> op, arg |-> arg]

Dispatch(cmd, cb, h, os, io) ==
  CASE cmd.op = "read_text" -> read_text(cb, h, os)
    [] cmd.op = "write_text" -> write_text(cb, cmd.arg, h, os)
    [] cmd.op = "read_image" -> read_image(cb, h, os, io)
    [] cmd.op = "read_image_binary" -> read_image_binary(cb, h, os, io)
    [] cmd.op = "write_image" -> write_image(cb, cmd.arg, h, os)

(* ------------------------------ the monitor --------------------------- *)

Changed == [kind |-> "Changed"]
Error(e) == [kind |-> "Error", error |-> e]

\* std::io::Error values of the detection mechanism, by OS error code.
IoErrors == {[code |-> 5], [code |-> 1418]}

\* Display of std::io::Error.
to_string(error) == << "os error", error.code >>

on_clipboard_change ==
  [emit |-> [event |-> "plugin:clipboard://clipboard-monitor/update",
             payload |-> << "clipboard update" >>],
   result |-> "Next"]

\* on_clipboard_error with the event of on_clipboard_change pasted in.
on_clipboard_error_WrongEvent(error) ==
  [emit |-> [event |-> "plugin:clipboard://clipboard-monitor/update",
             payload |-> to_string(error)],
   result |-> "Next"]

\* on_clipboard_error ending the loop after reporting the error.
on_clipboard_error_Stop(error) ==
  [emit |-> [event |-> "plugin:clipboard://clipboard-monitor/error",
             payload |-> to_string(error)],
   result |-> "Stop"]

on_clipboard_error(error) ==
  [emit |-> [event |-> "plugin:clipboard://clipboard-monitor/error",
             payload |-> to_string(error)],
   result |-> "Next"]

(* -------------------------------- inputs ------------------------------ *)

Texts == {"a", "ab"}

PixelBytes(n, seed) == [i \in 1..n |-> (seed * i) % 256]

Dims == 1..MaxDim

\* Images another process may leave on the clipboard: buffers of the exact
\* length, one byte short and one byte long.
ClipImages ==
  { ImageData(w, h, PixelBytes(w * h * 4, seed)) :
      w \in Dims, h \in Dims, seed \in {7, 255} }
    \cup { ImageData(w, h, PixelBytes(w * h * 4 + d, 7)) :
             w \in Dims, h \in Dims, d \in {-1, 1} }

ValidImage(img) == Len(img.bytes) = img.width * img.height * 4

ValidImages == { img \in ClipImages : ValidImage(img) }

EncodedValid ==
  { B64Encode(save(from_raw(img.width, img.height, img.bytes))) : img \in ValidImages }

\* Base64 of raster files in other colour types, and texts that are not
\* unpadded standard base64 or do not hold a raster file.
OtherColourTexts ==
  { B64Encode(PngFile(ColourGray, 1, 1, << 9 >>)),
    B64Encode(PngFile(ColourRgb, 1, 1, << 1, 2, 3 >>)) }

MalformedTexts ==
  { B64Encode(PngFile(ColourGray, 1, 1, << 9 >>)) \o << PadSym >>,
    << UrlSym, 0 >>, << 1 >>, << 0, 1 >>, << >>, B64Encode(<< 1, 2, 3 >>) }

OsContents ==
  {Empty} \cup { TextContent(t) : t \in Texts } \cup { ImageContent(i) : i \in ClipImages }

Commands ==
  { Command("read_text", Unit), Command("read_image", Unit),
    Command("read_image_binary", Unit) }
    \cup { Command("write_text", t) : t \in Texts }
    \cup { Command("write_image", b) :
             b \in EncodedValid \cup OtherColourTexts \cup MalformedTexts }

Outcomes == {Changed} \cup { Error(e) : e \in IoErrors }

(* -------------------------------- state ------------------------------- *)

VARIABLES
  clipboard,      \* content of the OS clipboard
  heap,           \* the Arc<Mutex<bool>> cells allocated so far, by address
  manager,        \* the managed ClipboardManager: addresses of its two flags
  monitor,        \* the ClipboardMonitor: address of its running flag
  phase,          \* "Idle", "Watching" or "Stopped"
  pending,        \* detection outcomes produced and not yet handled
  delivered,      \* detection outcomes handed to the handlers, in order
  notifications,  \* what emit_all was called with, in order
  pc,             \* per host thread: "idle", "new" (at Clipboard::new) or "body"
  call,           \* per host thread: the command in progress
  ret,            \* the Facade call that ended last, until the next dispatch
  since           \* what happened to the clipboard content since its last change

vars == << clipboard, heap, manager, monitor, phase, pending, delivered,
           notifications, pc, call, ret, since >>

monitorVars == << phase, pending, delivered, notifications >>
setupVars == << heap, manager, monitor >>
facadeVars == << clipboard, pc, call, ret, since >>

NoCommand == Command("none", Unit)
NoRet == [op |-> "none"]
Untouched == [kind |-> "none"]
Unset == [set |-> FALSE]

Init ==
  /\ clipboard \in {Empty}
  /\ heap = << >>
  /\ manager = Unset
  /\ monitor = Unset
  /\ phase = "Idle"
  /\ pending = << >>
  /\ delivered = << >>
  /\ notifications = << >>
  /\ pc = [c \in Callers |-> "idle"]
  /\ call = [c \in Callers |-> NoCommand]
  /\ ret = NoRet
  /\ since = Untouched

(* ------------------------------- actions ------------------------------ *)

\* ClipboardManager::default(): two fresh flags, both false.
ManagerDefault(h) ==
  [set |-> TRUE, terminate_flag |-> Len(h) + 1, running |-> Len(h) + 2]

\* ClipboardMonitor::new(app_handle, running).
MonitorNew(running) == [set |-> TRUE, running |-> running]

\* A setup that announces the monitor with a notification of its own.
Setup_Announce ==
  /\ phase = "Idle"
  /\ manager' = ManagerDefault(heap)
  /\ monitor' = MonitorNew(Len(heap) + 3)
  /\ heap' = heap \o << FALSE, FALSE, FALSE >>
  /\ phase' = "Watching"
  /\ notifications' = << on_clipboard_change.emit >>
  /\ UNCHANGED << pending, delivered >>
  /\ UNCHANGED facadeVars

\* The setup closure of init: manage a default ClipboardManager, allocate a
\* running flag, spawn the task that runs Master::new(monitor).run().
Setup ==
  /\ phase = "Idle"
  /\ manager' = ManagerDefault(heap)
  /\ monitor' = MonitorNew(Len(heap) + 3)
  /\ heap' = heap \o << FALSE, FALSE, FALSE >>
  /\ phase' = "Watching"
  /\ UNCHANGED << pending, delivered, notifications >>
  /\ UNCHANGED facadeVars

\* The OS detection mechanism produces an outcome for the running monitor.
Detect(o) ==
  /\ phase = "Watching"
  /\ Len(pending) + Len(delivered) < MaxOutcomes
  /\ pending' = Append(pending, o)
  /\ UNCHANGED << phase, delivered, notifications >>
  /\ UNCHANGED setupVars
  /\ UNCHANGED facadeVars

Handle(o) ==
  IF o.kind = "Changed" THEN on_clipboard_change ELSE on_clipboard_error(o.error)

\* One cycle of Master::run: the blocking wait returns an outcome, the
\* handler is called, and the loop goes on unless the handler says Stop.
MonitorCycle ==
  /\ phase = "Watching"
  /\ pending # << >>
  /\ LET o == Head(pending)
         r == Handle(o)
     IN /\ notifications' = Append(notifications, r.emit)
        /\ delivered' = Append(delivered, o)
        /\ phase' = IF r.result = "Next" THEN "Watching" ELSE "Stopped"
  /\ pending' = Tail(pending)
  /\ UNCHANGED setupVars
  /\ UNCHANGED facadeVars

\* Another process replaces the clipboard content.
OsWrite(content) ==
  /\ clipboard' = content
  /\ since' = Untouched
  /\ UNCHANGED << pc, call, ret >>
  /\ UNCHANGED setupVars
  /\ UNCHANGED monitorVars

\* The host dispatches a command to a thread: the handler is entered.
Invoke(c, cmd) ==
  /\ manager.set
  /\ pc[c] = "idle"
  /\ pc' = [pc EXCEPT ![c] = "new"]
  /\ call' = [call EXCEPT ![c] = cmd]
  /\ ret' = NoRet
  /\ UNCHANGED << clipboard, since >>
  /\ UNCHANGED setupVars
  /\ UNCHANGED monitorVars

\* What the clipboard has been through once a call ended with result r.
SinceAfter(cmd, r, cb, old) ==
  IF cmd.op = "write_text" /\ r.status = "ok"
    THEN [kind |-> "wrote_text", text |-> cmd.arg]
  ELSE IF r.clipboard # cb \/ (cmd.op = "write_image" /\ r.status = "ok")
    THEN Untouched
  ELSE IF cmd.op = "read_image" /\ r.status = "ok"
    THEN [kind |-> "read_image", img |-> cb.img, b64 |-> r.value]
  ELSE old

Returned(cmd, h, r, cb, old) ==
  [op |-> cmd.op, arg |-> cmd.arg, handle |-> h,
   status |-> r.status, value |-> r.value,
   before |-> cb, after |-> r.clipboard, since |-> old]

\* The call ends with result r: its effect on the clipboard and its return.
Finish(c, h, r) ==
  /\ clipboard' = r.clipboard
  /\ ret' = Returned(call[c], h, r, clipboard, since)
  /\ since' = SinceAfter(call[c], r, clipboard, since)
  /\ pc' = [pc EXCEPT ![c] = "idle"]
  /\ call' = [call EXCEPT ![c] = NoCommand]

\* Facade calls serialized by a process-wide lock: the handle is taken only
\* when no other thread is past this point.
NewClipboard_Serialized(c) ==
  /\ pc[c] = "new"
  /\ \A d \in Callers \ {c} : pc[d] # "body"
  /\ \E h \in HandleOutcomes :
       IF h = "ok"
       THEN /\ pc' = [pc EXCEPT ![c] = "body"]
            /\ UNCHANGED << clipboard, call, ret, since >>
       ELSE Finish(c, h, Dispatch(call[c], clipboard, h, "free", "ok"))
  /\ UNCHANGED setupVars
  /\ UNCHANGED monitorVars

\* Clipboard::new().unwrap(), the first statement of every Facade method.
NewClipboard(c) ==
  /\ pc[c] = "new"
  /\ \E h \in HandleOutcomes :
       IF h = "ok"
       THEN /\ pc' = [pc EXCEPT ![c] = "body"]
            /\ UNCHANGED << clipboard, call, ret, since >>
       ELSE Finish(c, h, Dispatch(call[c], clipboard, h, "free", "ok"))
  /\ UNCHANGED setupVars
  /\ UNCHANGED monitorVars

\* Only the two image readers go through a temporary file.
IoChoices(cmd) ==
  IF cmd.op \in {"read_image", "read_image_binary"} THEN IoOutcomes ELSE {"ok"}

\* The rest of the Facade method, with the handle in hand.
Body(c) ==
  /\ pc[c] = "body"
  /\ \E os \in OsStates, io \in IoChoices(call[c]) :
       Finish(c, "ok", Dispatch(call[c], clipboard, "ok", os, io))
  /\ UNCHANGED setupVars
  /\ UNCHANGED monitorVars

(* ---------------------------- specifications -------------------------- *)

\* The monitor alone.
NextMonitor ==
  \/ Setup
  \/ \E o \in Outcomes : Detect(o)
  \/ MonitorCycle

SpecMonitor == Init /\ [][NextMonitor]_vars

\* One host thread calling the Facade, another process writing the clipboard.
NextFacade ==
  \/ Setup
  \/ \E content \in OsContents : OsWrite(content)
  \/ \E cmd \in Commands : Invoke(Host, cmd)
  \/ NewClipboard(Host)
  \/ Body(Host)

SpecFacade == Init /\ [][NextFacade]_vars

SmallContents == {Empty, TextContent("a")}
SmallCommands ==
  { Command("read_text", Unit), Command("write_text", "a"),
    Command("read_image", Unit), Command("read_image_binary", Unit),
    Command("write_image", << 1 >>) }

\* The whole plugin: concurrent host threads, the monitor, other processes.
Next ==
  \/ Setup
  \/ Detect(Changed)
  \/ MonitorCycle
  \/ \E content \in SmallContents : OsWrite(content)
  \/ \E c \in Callers, cmd \in SmallCommands : Invoke(c, cmd)
  \/ \E c \in Callers : NewClipboard(c)
  \/ \E c \in Callers : Body(c)

Spec == Init /\ [][Next]_vars

(* -------------------------------- claims ------------------------------ *)

UpdateEvent == "plugin:clipboard://clipboard-monitor/update"
ErrorEvent == "plugin:clipboard://clipboard-monitor/error"

\* C1: the monitor emits exactly one notification per detection outcome
\* handed to it, in the same order: an update notification for a Changed, an
\* error notification carrying the error's description for an Error(e).
C1_OneNotificationPerOutcome ==
  /\ Len(notifications) = Len(delivered)
  /\ \A i \in 1..Len(delivered) :
       IF delivered[i].kind = "Changed"
       THEN notifications[i].event = UpdateEvent
       ELSE /\ notifications[i].event = ErrorEvent
            /\ notifications[i].payload = << "os error", delivered[i].error.code >>

\* An error followed by a change has been handled: one error notification,
\* then one update notification.
C1_Witness ==
  /\ Len(delivered) = 2
  /\ delivered[1].kind = "Error"
  /\ delivered[2].kind = "Changed"
  /\ notifications[1].event = ErrorEvent
  /\ notifications[2].event = UpdateEvent

\* C2: once the monitor is Watching it stays Watching: no step, and so no
\* detection outcome, change or error, takes it out of the loop.
C2_StaysWatching == [][phase = "Watching" => phase' = "Watching"]_vars

\* The monitor still watches after a run of consecutive detection errors.
C2_Witness ==
  /\ phase = "Watching"
  /\ Len(delivered) = MaxOutcomes
  /\ \A i \in 1..Len(delivered) : delivered[i].kind = "Error"

\* C3: every notification is the result of a detection outcome handed to a
\* handler: none at start-up, none spontaneously, none from a Facade call;
\* with no outcome handled there is no notification.
C3_NoNotificationWithoutOutcome == Len(notifications) <= Len(delivered)

\* The monitor watches, no outcome was produced, a reading Facade call has
\* failed, and nothing was emitted.
C3_Witness ==
  /\ phase = "Watching"
  /\ pending = << >>
  /\ delivered = << >>
  /\ notifications = << >>
  /\ ret.op = "read_text"
  /\ ret.status = "err"

\* C4: a Facade call whose handle acquisition fails returns an error string
\* and leaves the clipboard content as it was.
C4_HandleFailureReturnsError ==
  (ret.op # "none" /\ ret.handle = "fails")
    => (ret.status = "err" /\ ret.after = ret.before)

\* C5: read_image and read_image_binary, fetching an image whose buffer
\* length is not width*height*4, end with an error result.
C5_MismatchedImageFails ==
  (/\ ret.op \in {"read_image", "read_image_binary"}
   /\ ret.handle = "ok"
   /\ ret.before.kind = "image"
   /\ ~ValidImage(ret.before.img))
    => ret.status = "err"

\* C6: write_image given text that is not unpadded standard base64, or whose
\* bytes are no raster image, returns an error and leaves the clipboard
\* content as it was.
C6_MalformedWriteRejected ==
  (ret.op = "write_image" /\ ret.arg \in MalformedTexts)
    => (ret.status = "err" /\ ret.after = ret.before)

\* C7: image round trip. The text read_image returns for a valid image
\* decodes (as write_image decodes it) to the same width, height and bytes;
\* and write_image of the text read_image returned, with no writer in
\* between, leaves the clipboard holding the image that was read.
C7_ImageRoundTrip ==
  /\ (ret.op = "read_image" /\ ret.status = "ok" /\ ValidImage(ret.before.img))
       => LET d == load_from_memory(B64Decode(ret.value).bytes)
          IN /\ B64Decode(ret.value).ok
             /\ d.ok
             /\ ImageData(d.width, d.height, PixelsFrom(d, 1)) = ret.before.img
  /\ (/\ ret.op = "write_image"
      /\ ret.since.kind = "read_image"
      /\ ret.arg = ret.since.b64
      /\ ValidImage(ret.since.img))
       => ret.after = ImageContent(ret.since.img)

\* write_image has succeeded on the text read_image returned for the valid
\* image the clipboard held.
C7_Witness ==
  /\ ret.op = "write_image"
  /\ ret.status = "ok"
  /\ ret.since.kind = "read_image"
  /\ ret.arg = ret.since.b64
  /\ ValidImage(ret.since.img)
  /\ clipboard = ImageContent(ret.since.img)

\* C8 as stated: read_text after a successful write_text(T), with no writer
\* in between, returns T: whenever the call returns, what it returns is T.
C8_ReadReturnsWritten ==
  (ret.op = "read_text" /\ ret.since.kind = "wrote_text" /\ ret.status # "panic")
    => (ret.status = "ok" /\ ret.value = ret.since.text)

\* C8 as amended: read_text after a successful write_text(T), with no writer
\* in between, returns T whenever it returns a text at all.
C8_TextRoundTrip ==
  (ret.op = "read_text" /\ ret.since.kind = "wrote_text" /\ ret.status = "ok")
    => ret.value = ret.since.text

\* read_text has returned a text right after a successful write_text.
C8_Witness ==
  /\ ret.op = "read_text"
  /\ ret.since.kind = "wrote_text"
  /\ ret.status = "ok"
  /\ ret.value \in Texts

\* C9: the Manager and the Monitor hold the same MonitorState object, and a
\* raised terminate flag leaves no monitor watching with outcomes handled.
C9_SharedMonitorState ==
  (manager.set /\ monitor.set)
    => /\ monitor.running = manager.running
       /\ heap[manager.terminate_flag] => (phase # "Watching" \/ delivered = << >>)

\* C10: no Facade call in progress and no pending detection outcome ever
\* waits on another part of the plugin: the next step of each is enabled in
\* every reachable state, whatever the other threads are doing.
C10_NothingWaits ==
  /\ \A c \in Callers :
       /\ pc[c] = "new" => ENABLED NewClipboard(c)
       /\ pc[c] = "body" => ENABLED Body(c)
  /\ (phase = "Watching" /\ pending # << >>) => ENABLED MonitorCycle
  /\ ENABLED Next

\* Two Facade calls are past handle acquisition at once while the monitor
\* has an outcome to handle.
C10_Witness ==
  /\ \E c \in Callers, d \in Callers : c # d /\ pc[c] = "body" /\ pc[d] = "body"
  /\ phase = "Watching"
  /\ pending # << >>

==========================================================================
